---- MODULE Spec2Model ----
(***************************************************************************)
(* Distribution detection and the package-database backends of dogtail     *)
(* (dogtail/distro.py), with the logging collaborator it calls             *)
(* (dogtail/logging.py).                                                   *)
(*                                                                         *)
(* Text is modelled as a sequence of atoms.  An atom is a TLA+ string that *)
(* stands for a run of characters the code never looks inside: a word, a   *)
(* separator such as "/", a suffix such as ".mo".  Names that the code     *)
(* only compares for equality (package names, class names, marker paths)   *)
(* are single atoms.                                                       *)
(***************************************************************************)
EXTENDS Integers, Sequences, FiniteSets, TLC

VARIABLES
    environ,      \* os.environ: a function from the variables that are set to their values
    files,        \* the marker paths for which os.path.exists() is true
    releaseLine,  \* open("/etc/release").readline(), <<>> when the file is absent or empty
    imported,     \* whether dogtail.distro is in sys.modules
    distro,       \* the module-level name distro (NoDistro while unbound)
    packageDb,    \* the module-level name packageDb (NoDb while unbound)
    detectRuns,   \* how many times detectDistro has been entered in this process
    lastDetect,   \* how the latest detectDistro call ended
    inst,         \* a Distro object made by calling its class (NoDistro before)
    rpmdb,        \* the RPM database: the installed headers, in database order
    aptCache,     \* apt_pkg.GetCache().Packages
    dpkgOut,      \* package name -> the stdout lines of `dpkg -L name`
    portageDb,    \* package name -> portage.db["/"]["vartree"].dbapi.match(name)
    conaryDb,     \* package name -> client.db.getTroveVersionList(name)
    jhbuildOut,   \* package name -> the stdout lines of `jhbuild list name`
    localeFs,     \* the directory entries below the locale roots
    lastQuery,    \* the latest call on inst or its packageDb, and how it ended
    logged,       \* the messages debugLogger.log has accepted, in call order
    lockdir,      \* what the file system holds at the Lock instances' lockdir path
    lockPc,       \* Lock instance -> where it stands inside lock() or unlock()
    lockOp,       \* Lock instance -> the method its running or latest call entered
    lockOut,      \* Lock instance -> how its latest completed call ended
    held,         \* Lock instance -> its latest lock() returned and it has not unlocked since
    desktop,      \* desktop.children: the applications the accessibility registry lists
    runPc,        \* where the run() call stands
    runArgs,      \* the timeout, interval and dumb arguments of the run() call
    runPid,       \* subprocess.Popen(...).pid of the run() call (0 before it)
    runTime,      \* run()'s local variable time
    slept,        \* the sum of the delays doDelay has slept during the run() call
    focusNode,    \* focus.application.node
    runResult,    \* what run() returned (0 while it has not)
    scratchFiles, \* the paths that exist below config.scratchDir
    shots,        \* how many screenshot() calls have been made
    shotCall,     \* the arguments and the clock reading of the latest screenshot() call
    shotOut       \* how the latest screenshot() call ended

hostVars == <<environ, files, releaseLine>>
moduleVars == <<imported, distro, packageDb, detectRuns, lastDetect>>
sourceVars == <<rpmdb, aptCache, dpkgOut, portageDb, conaryDb, jhbuildOut, localeFs>>
lockVars == <<lockdir, lockPc, lockOp, lockOut, held>>
runVars == <<desktop, runPc, runArgs, runPid, runTime, slept, focusNode, runResult>>
shotVars == <<scratchFiles, shots, shotCall, shotOut>>
utilVars == <<lockVars, runVars, shotVars>>
vars == <<hostVars, moduleVars, sourceVars, inst, lastQuery, logged, utilVars>>

None == "None"

\* ------------------------------------------------------------------ bounds

\* How many times the process attempts to import dogtail.distro.
MaxImports == 2

\* --------------------------------------------------------------- sequences

Range(s) == {s[i] : i \in 1..Len(s)}

NoDuplicates(s) == \A i, j \in 1..Len(s) : i # j => s[i] # s[j]

\* A dict used as a set (result[key] = None ... result.keys()): the keys in
\* the order of their first insertion.
DictPut(keys, k) == IF k \in Range(keys) THEN keys ELSE Append(keys, k)

RECURSIVE DictPutAll(_, _)
DictPutAll(keys, ks) ==
    IF ks = <<>> THEN keys ELSE DictPutAll(DictPut(keys, Head(ks)), Tail(ks))

\* ------------------------------------------------------------- environment

EnvVars == {"CERTIFIED_GNOMIE", "LD_LIBRARY_PATH", "XDG_CONFIG_DIRS", "PKG_CONFIG_PATH"}

JhVars == <<"LD_LIBRARY_PATH", "XDG_CONFIG_DIRS", "PKG_CONFIG_PATH">>

\* os.environ.get(key, default)
EnvironGet(env, key, default) == IF key \in DOMAIN env THEN env[key] ELSE default

MarkerPaths == {"/etc/SuSE-release", "/etc/fedora-release", "/etc/redhat-release",
                "/usr/share/doc/ubuntu-minimal", "/etc/debian_version",
                "/etc/gentoo-release", "/etc/slackware-version",
                "/var/lib/conarydb/conarydb", "/etc/release"}

\* os.path.exists(path)
PathExists(fs, path) == path \in fs

\* re.match(".*Solaris", line): some prefix of the line is followed by the
\* text Solaris.  The line is a sequence of words; the match is case
\* sensitive, so the atom "solaris" is not a match.
MatchSolaris(line) == \E i \in 1..Len(line) : line[i] = "Solaris"


\* ------------------------------------------------------ calls and outcomes

\* How a call ends: it returns value, or raises exc(arg).
Return(v) == [status |-> "return", exc |-> None, arg |-> None, value |-> v]
Raise(e, a) == [status |-> "raise", exc |-> e, arg |-> a, value |-> <<>>]

\* --------------------------------------------------------------- Logger.log

\* The parameters of Logger.log besides self.
LoggerLogParams == {"message"}

\* A call logger.log(<message>, **keywords): Python raises TypeError for a
\* keyword that is no parameter of the method, or that names the parameter
\* the positional argument already fills.
LoggerLog(keywords) ==
    IF keywords \subseteq (LoggerLogParams \ {"message"}) THEN "ok" ELSE "TypeError"

\* ---------------------------------------------------- backend construction

NoAttr == "no such attribute"

NoDb == [cls |-> None, prefix |-> <<>>, localePrefixes |-> <<>>, cache |-> NoAttr]

NoDistro == [kind |-> None, packageDb |-> NoDb]

ShareLocale == <<"/", "share", "/", "locale">>

\* PackageDb.__init__
PackageDbInit(cls) ==
    [cls |-> cls, prefix |-> <<"/", "usr">>,
     localePrefixes |-> << <<"/", "usr">> \o ShareLocale >>, cache |-> NoAttr]

\* _AptPackageDb.__init__
AptPackageDbInit(cls) == [PackageDbInit(cls) EXCEPT !.cache = None]

\* _UbuntuAptPackageDb.__init__
UbuntuAptPackageDbInit ==
    LET self == AptPackageDbInit("_UbuntuAptPackageDb")
    IN  [self EXCEPT !.localePrefixes =
            Append(@, self.prefix \o <<"/", "share", "/", "locale-langpack">>)]

\* os.path.commonprefix of two texts
RECURSIVE CommonPrefix2(_, _)
CommonPrefix2(s, t) ==
    IF s = <<>> \/ t = <<>> \/ Head(s) # Head(t) THEN <<>>
    ELSE <<Head(s)>> \o CommonPrefix2(Tail(s), Tail(t))

\* os.path.commonprefix of a non-empty list of texts
RECURSIVE CommonPrefix(_)
CommonPrefix(list) ==
    IF Len(list) = 1 THEN list[1]
    ELSE CommonPrefix2(Head(list), CommonPrefix(Tail(list)))

\* JhBuildPackageDb.__init__: os.environ[k] raises KeyError(k) for a
\* variable that is not set.
JhBuildPackageDbInit(env) ==
    LET missing == {i \in 1..Len(JhVars) : JhVars[i] \notin DOMAIN env}
    IN  IF missing # {}
        THEN Raise("KeyError", JhVars[CHOOSE i \in missing : \A j \in missing : i <= j])
        ELSE LET self == PackageDbInit("JhBuildPackageDb")
                 prefix == CommonPrefix([i \in 1..Len(JhVars) |-> env[JhVars[i]]])
             IN  Return([self EXCEPT !.prefix = prefix,
                                    !.localePrefixes = Append(@, prefix \o ShareLocale)])

Kinds == {"Fedora", "RHEL", "Debian", "Ubuntu", "Suse", "Gentoo", "Conary", "Solaris", "JHBuild"}

\* The packageDb a Distro subclass makes in its __init__.  RHEL inherits
\* Fedora.__init__; Ubuntu overrides Debian.__init__.
BackendFor(kind, env) ==
    CASE kind \in {"Fedora", "RHEL"} -> Return(PackageDbInit("_RpmPackageDb"))
      [] kind = "Debian"  -> Return(AptPackageDbInit("_AptPackageDb"))
      [] kind = "Ubuntu"  -> Return(UbuntuAptPackageDbInit)
      [] kind = "Suse"    -> Return(PackageDbInit("_RpmPackageDb"))
      [] kind = "Gentoo"  -> Return(PackageDbInit("_PortagePackageDb"))
      [] kind = "Conary"  -> Return(PackageDbInit("_ConaryPackageDb"))
      [] kind = "Solaris" -> Return(PackageDbInit("_SolarisPackageDb"))
      [] kind = "JHBuild" -> JhBuildPackageDbInit(env)

\* DistroInit with Ubuntu left to inherit Debian.__init__.
DistroInitUbuntuInherits(kind, env) ==
    LET db == BackendFor(IF kind = "Ubuntu" THEN "Debian" ELSE kind, env)
    IN  IF db.status = "raise" THEN db ELSE Return([kind |-> kind, packageDb |-> db.value])

\* Calling a Distro subclass: self.packageDb is bound in __init__, and the
\* call raises what the backend's constructor raises.
DistroInit(kind, env) ==
    LET db == BackendFor(kind, env)
    IN  IF db.status = "raise" THEN db ELSE Return([kind |-> kind, packageDb |-> db.value])

\* ----------------------------------------------------------------- detection

\* The if/elif chain of detectDistro: the Distro class to call, or the
\* failure to raise.
DetectChain(env, fs, line) ==
    IF EnvironGet(env, "CERTIFIED_GNOMIE", <<"no">>) = <<"yes">> THEN DistroInit("JHBuild", env)
    ELSE IF PathExists(fs, "/etc/SuSE-release") THEN DistroInit("Suse", env)
    ELSE IF PathExists(fs, "/etc/fedora-release") THEN DistroInit("Fedora", env)
    ELSE IF PathExists(fs, "/etc/redhat-release") THEN DistroInit("RHEL", env)
    ELSE IF PathExists(fs, "/usr/share/doc/ubuntu-minimal") THEN DistroInit("Ubuntu", env)
    ELSE IF PathExists(fs, "/etc/debian_version") THEN DistroInit("Debian", env)
    ELSE IF PathExists(fs, "/etc/gentoo-release") THEN DistroInit("Gentoo", env)
    ELSE IF PathExists(fs, "/etc/slackware-version")
         THEN Raise("DistributionNotSupportedError", "Slackware")
    ELSE IF PathExists(fs, "/var/lib/conarydb/conarydb") THEN DistroInit("Conary", env)
    ELSE IF PathExists(fs, "/etc/release") /\ MatchSolaris(line) THEN DistroInit("Solaris", env)
    ELSE Raise("DistributionNotSupportedError", "Unknown")

\* detectDistro(): the first statement is
\* logger.log("Detecting distribution:", newline=False); the chain follows
\* only if that call returns, and the class name is logged before the return.
detectDistro(env, fs, line) ==
    IF LoggerLog({"newline"}) # "ok" THEN Raise("TypeError", "newline")
    ELSE LET d == DetectChain(env, fs, line)
         IN  IF d.status = "raise" THEN d
             ELSE IF LoggerLog({}) # "ok" THEN Raise("TypeError", None)
             ELSE d

\* What one detectDistro() run hands to Logger.log and the logger accepts:
\* the announcement if the first call returns, then the class name if the
\* chain returned a Distro and the second call returns.
DetectLog(env, fs, line) ==
    IF LoggerLog({"newline"}) # "ok" THEN <<>>
    ELSE LET d == DetectChain(env, fs, line)
         IN  <<"Detecting distribution:">> \o
             (IF d.status = "return" /\ LoggerLog({}) = "ok"
              THEN <<d.value.kind>> ELSE <<>>)

\* Executing the module body of dogtail/distro.py: distro = detectDistro();
\* packageDb = distro.packageDb.  Python runs the body when the module is
\* not in sys.modules and leaves it out of sys.modules when the body raises,
\* so a later import executes the body again.
ImportDistro ==
    /\ ~imported
    /\ detectRuns < MaxImports
    /\ LET r == detectDistro(environ, files, releaseLine)
       IN  /\ detectRuns' = detectRuns + 1
           /\ lastDetect' = [status |-> r.status, exc |-> r.exc, arg |-> r.arg,
                             kind |-> IF r.status = "return" THEN r.value.kind ELSE None]
           /\ imported' = (r.status = "return")
           /\ distro' = IF r.status = "return" THEN r.value ELSE distro
           /\ packageDb' = IF r.status = "return" THEN r.value.packageDb ELSE packageDb
           /\ logged' = logged \o DetectLog(environ, files, releaseLine)
    /\ UNCHANGED <<hostVars, sourceVars, inst, lastQuery, utilVars>>


\* --------------------------------------------------------------------- text

IsSpace(atom) == atom \in {" ", "\n"}

\* str.strip(): the text without its leading and trailing whitespace
RECURSIVE Strip(_)
Strip(text) ==
    IF text = <<>> THEN <<>>
    ELSE IF IsSpace(Head(text)) THEN Strip(Tail(text))
    ELSE IF IsSpace(text[Len(text)]) THEN Strip(SubSeq(text, 1, Len(text) - 1))
    ELSE text

\* The atom a stripped line holds: lines of tool output hold one word, and
\* the empty text is the empty string.
Word(text) == IF text = <<>> THEN "" ELSE text[1]

\* str.split(sep): the runs between the occurrences of sep, empty runs kept
RECURSIVE SplitOn(_, _)
SplitOn(text, sep) ==
    IF \A i \in 1..Len(text) : text[i] # sep THEN <<text>>
    ELSE LET k == CHOOSE i \in 1..Len(text) :
                      text[i] = sep /\ \A j \in 1..(i - 1) : text[j] # sep
         IN  <<SubSeq(text, 1, k - 1)>> \o SplitOn(SubSeq(text, k + 1, Len(text)), sep)

\* A set as a sequence, in the arbitrary but fixed order a directory
\* listing or a dict has.
RECURSIVE SetToSeq(_)
SetToSeq(S) ==
    IF S = {} THEN <<>>
    ELSE LET x == CHOOSE y \in S : TRUE IN <<x>> \o SetToSeq(S \ {x})

\* Version.fromString (dogtail/version.py): the components between the dots.
VersionFromString(text) == [versionList |-> SplitOn(text, ".")]

\* --------------------------------------------------------------- _RpmPackageDb

\* ts.dbMatch(tag, value): the headers whose tag holds value, in database order
DbMatchName(name) == SelectSeq(rpmdb, LAMBDA h : h.name = name)
DbMatchProvides(req) == SelectSeq(rpmdb, LAMBDA h : req \in h.provides)

RpmGetVersion(db, name) ==
    LET found == DbMatchName(name)
    IN  [db |-> db,
         out |-> IF found # <<>> THEN Return(VersionFromString(found[1].version))
                 ELSE Raise("PackageNotFoundError", name)]

RpmGetFiles(db, name) ==
    LET found == DbMatchName(name)
    IN  [db |-> db,
         out |-> IF found # <<>> THEN Return(found[1].filenames)
                 ELSE Raise("PackageNotFoundError", name)]

RpmAddFirstProvider(result, req, name) ==
    LET providers == DbMatchProvides(req)
    IN  IF providers = <<>> \/ providers[1].name = name THEN result
        ELSE DictPut(result, providers[1].name)

\* The names of the providers of one requirement that differ from the
\* queried name, added to the dict.
RpmAddProviders(result, req, name) ==
    LET providers == DbMatchProvides(req)
        names == [i \in 1..Len(providers) |-> providers[i].name]
    IN  DictPutAll(result, SelectSeq(names, LAMBDA depName : depName # name))

RECURSIVE RpmResolve(_, _, _)
RpmResolve(result, requires, name) ==
    IF requires = <<>> THEN result
    ELSE RpmResolve(RpmAddProviders(result, Head(requires), name), Tail(requires), name)

RpmGetDependencies(db, name) ==
    LET found == DbMatchName(name)
    IN  [db |-> db,
         out |-> IF found # <<>> THEN Return(RpmResolve(<<>>, found[1].requires, name))
                 ELSE Raise("PackageNotFoundError", name)]

\* --------------------------------------------------------------- _AptPackageDb

AptOpenCacheAlways(db) ==
    [db EXCEPT !.cache = IF @ = "GetCache()" THEN "GetCache() again" ELSE "GetCache()"]

\* if not self.cache: apt_pkg.init(); self.cache = apt_pkg.GetCache()
AptOpenCache(db) == IF db.cache = None THEN [db EXCEPT !.cache = "GetCache()"] ELSE db

AptMatches(name) == SelectSeq(aptCache, LAMBDA p : p.Name = name)

\* re.match('.*Ver:\'(.*)-.*\' Section:', str(package.CurrentVer)).group(1):
\* the version text before its last hyphen.  Without a current version, or
\* with no hyphen in it, re.match returns None and .group raises
\* AttributeError.
AptVerString(package) ==
    LET v == package.VerStr
        hyphens == {i \in 1..Len(v) : v[i] = "-"}
    IN  IF ~package.installed \/ hyphens = {} THEN Raise("AttributeError", "group")
        ELSE LET last == CHOOSE i \in hyphens : \A j \in hyphens : j <= i
             IN  Return(SubSeq(v, 1, last - 1))

AptGetVersion(db, name) ==
    LET found == AptMatches(name)
    IN  [db |-> AptOpenCache(db),
         out |-> IF found = <<>> THEN Raise("PackageNotFoundError", name)
                 ELSE LET ver == AptVerString(found[1])
                      IN  IF ver.status = "raise" THEN ver
                          ELSE Return(VersionFromString(ver.value))]

AptGetFilesDropsCache(db, name) ==
    LET list == dpkgOut[name]
        stripped == [i \in 1..Len(list) |-> Word(Strip(list[i]))]
    IN  IF list = <<>>
        THEN [db |-> [db EXCEPT !.cache = None], out |-> Raise("PackageNotFoundError", name)]
        ELSE [db |-> db, out |-> Return(SelectSeq(stripped, LAMBDA file : file # ""))]

\* os.popen('dpkg -L %s' % packageName).readlines(), stripped, blank lines dropped
AptGetFiles(db, name) ==
    LET list == dpkgOut[name]
        stripped == [i \in 1..Len(list) |-> Word(Strip(list[i]))]
    IN  [db |-> db,
         out |-> IF list = <<>> THEN Raise("PackageNotFoundError", name)
                 ELSE Return(SelectSeq(stripped, LAMBDA file : file # ""))]

\* The loop body of getDependencies for the matching packages, in cache
\* order: the first alternative of every entry of DependsList['Depends'].
RECURSIVE AptCollect(_, _, _)
AptCollect(result, found, name) ==
    IF found = <<>> THEN Return(result)
    ELSE LET package == Head(found)
         IN  IF ~package.installed THEN Raise("PackageNotFoundError", name)
             ELSE IF "Depends" \notin DOMAIN package.DependsList
                  THEN Raise("KeyError", "Depends")
             ELSE LET list == package.DependsList["Depends"]
                      names == [i \in 1..Len(list) |-> list[i][1]]
                  IN  AptCollect(DictPutAll(result, names), Tail(found), name)

AptGetDependencies(db, name) ==
    [db |-> AptOpenCache(db), out |-> AptCollect(<<>>, AptMatches(name), name)]

\* ----------------------------------------------------------- _PortagePackageDb

\* dbapi.match(packageName)[0].split('/')[1], then portage.pkgsplit(...)[1]:
\* the upstream version of the first installed match; [0] of an empty list
\* raises IndexError.
PortageGetVersion(db, name) ==
    LET matches == portageDb[name]
    IN  [db |-> db,
         out |-> IF matches = <<>> THEN Raise("IndexError", None)
                 ELSE Return(VersionFromString(matches[1].version))]

\* ------------------------------------------------------------ _ConaryPackageDb

\* dbVersions[0].trailingRevision().asString().split("-")[0], returned as text
ConaryGetVersion(db, name) ==
    LET dbVersions == conaryDb[name]
    IN  [db |-> db,
         out |-> IF Len(dbVersions) = 0 THEN Raise("PackageNotFoundError", name)
                 ELSE Return(SplitOn(dbVersions[1], "-")[1])]

\* ------------------------------------------------------------ JhBuildPackageDb

\* os.popen('jhbuild list ' + packageName).readlines(): every line read is
\* non-empty (it holds at least its line end), so the test `if line` passes
\* and the stripped line becomes a key.
RECURSIVE JhCollect(_, _)
JhCollect(result, lines) ==
    IF lines = <<>> THEN result
    ELSE JhCollect(IF Head(lines) # <<>> THEN DictPut(result, Word(Strip(Head(lines))))
                   ELSE result,
                   Tail(lines))

JhBuildGetDependencies(db, name) ==
    [db |-> db, out |-> Return(JhCollect(<<>>, jhbuildOut[name]))]

\* ------------------------------------------------------------------ PackageDb

\* The methods of the base class raise NotImplementedError.
BaseNotImplemented(db, name) == [db |-> db, out |-> Raise("NotImplementedError", None)]

AptClasses == {"_AptPackageDb", "_UbuntuAptPackageDb"}

\* packageDb.getVersion(name), by the class of packageDb
GetVersionOf(db, name) ==
    CASE db.cls = "_RpmPackageDb"     -> RpmGetVersion(db, name)
      [] db.cls \in AptClasses        -> AptGetVersion(db, name)
      [] db.cls = "_PortagePackageDb" -> PortageGetVersion(db, name)
      [] db.cls = "_ConaryPackageDb"  -> ConaryGetVersion(db, name)
      [] OTHER                        -> BaseNotImplemented(db, name)

\* packageDb.getFiles(name), by the class of packageDb
GetFilesOf(db, name) ==
    CASE db.cls = "_RpmPackageDb" -> RpmGetFiles(db, name)
      [] db.cls \in AptClasses    -> AptGetFiles(db, name)
      [] OTHER                    -> BaseNotImplemented(db, name)

\* packageDb.getDependencies(name), by the class of packageDb
GetDependenciesOf(db, name) ==
    CASE db.cls = "_RpmPackageDb"    -> RpmGetDependencies(db, name)
      [] db.cls \in AptClasses       -> AptGetDependencies(db, name)
      [] db.cls = "JhBuildPackageDb" -> JhBuildGetDependencies(db, name)
      [] OTHER                       -> BaseNotImplemented(db, name)


\* ----------------------------------------------------------------- getMoFiles

\* A directory entry is [path, dir]: path is the sequence of its names from
\* the root directory, a name is a text, dir says whether it is a directory.

\* The names of a path text: the non-empty runs between the slashes.
Components(text) == SelectSeq(SplitOn(text, "/"), LAMBDA run : run # <<>>)

IsDir(fs, path) == \E e \in fs : e.path = path /\ e.dir

\* os.listdir: the names of the entries directly in the directory
ListDir(fs, path) ==
    SetToSeq({e.path[Len(e.path)] :
                e \in {f \in fs : /\ Len(f.path) = Len(path) + 1
                                  /\ SubSeq(f.path, 1, Len(path)) = path}})

\* re.match('(.*)\\.mo', fName): the text .mo occurs in the name, at its
\* end or before it.
MatchMo(fName) == \E i \in 1..Len(fName) : fName[i] = ".mo"

\* appendIfMoFile(moFiles, dirName, fNames)
RECURSIVE AppendIfMoFile(_, _, _)
AppendIfMoFile(moFiles, dirName, fNames) ==
    IF fNames = <<>> THEN moFiles
    ELSE AppendIfMoFile(IF MatchMo(Head(fNames))
                        THEN DictPut(moFiles, dirName \o <<"/">> \o Head(fNames))
                        ELSE moFiles,
                        dirName, Tail(fNames))

\* os.path.walk(top, appendIfMoFile, moFiles): nothing for a top that cannot
\* be listed; else the callback on top and its names (files and directories
\* alike), then the walk of every name that is a directory.
RECURSIVE Walk(_, _, _)
RECURSIVE WalkEach(_, _, _, _)
Walk(fs, top, moFiles) ==
    IF ~IsDir(fs, Components(top)) THEN moFiles
    ELSE LET names == ListDir(fs, Components(top))
         IN  WalkEach(fs, top, names, AppendIfMoFile(moFiles, top, names))
WalkEach(fs, top, names, moFiles) ==
    IF names = <<>> THEN moFiles
    ELSE LET name == top \o <<"/">> \o Head(names)
         IN  WalkEach(fs, top, Tail(names),
                      IF IsDir(fs, Components(name)) THEN Walk(fs, name, moFiles)
                      ELSE moFiles)

\* The root walked for one locale prefix: `if locale:` is false for None
\* and for the empty text, both written <<>>.
LocaleRoot(localePrefix, locale) ==
    IF locale # <<>> THEN localePrefix \o <<"/">> \o locale ELSE localePrefix

RECURSIVE MoFilesUnder(_, _, _)
MoFilesUnder(localePrefixes, locale, moFiles) ==
    IF localePrefixes = <<>> THEN moFiles
    ELSE MoFilesUnder(Tail(localePrefixes), locale,
                      Walk(localeFs, LocaleRoot(Head(localePrefixes), locale), moFiles))

\* PackageDb.getMoFiles(locale)
GetMoFilesOf(db, locale) ==
    [db |-> db, out |-> Return(MoFilesUnder(db.localePrefixes, locale, <<>>))]

\* ------------------------------------------------------------------- queries

QNames == {"a", "b", "zz"}

Locales == {<<>>, <<"xx">>, <<"xx_YY">>}

NoQuery == [op |-> None, name |-> None, locale |-> <<>>, out |-> Return(<<>>)]

\* Calling a Distro subclass directly, as a script or a test does.
Construct(kind) ==
    /\ inst = NoDistro
    /\ LET r == DistroInit(kind, environ)
       IN  /\ inst' = IF r.status = "return" THEN r.value ELSE inst
           /\ lastQuery' = [op |-> "__init__", name |-> kind, locale |-> <<>>,
                            out |-> IF r.status = "return" THEN Return(<<>>) ELSE r]
    /\ UNCHANGED <<hostVars, moduleVars, sourceVars, logged, utilVars>>

\* One call of a query method on inst.packageDb.
Query(op, name, locale, r) ==
    /\ inst' = [inst EXCEPT !.packageDb = r.db]
    /\ lastQuery' = [op |-> op, name |-> name, locale |-> locale, out |-> r.out]
    /\ UNCHANGED <<hostVars, moduleVars, sourceVars, logged, utilVars>>

GetVersion(name) ==
    /\ inst # NoDistro
    /\ Query("getVersion", name, <<>>, GetVersionOf(inst.packageDb, name))

GetFiles(name) ==
    /\ inst # NoDistro
    /\ Query("getFiles", name, <<>>, GetFilesOf(inst.packageDb, name))

GetDependencies(name) ==
    /\ inst # NoDistro
    /\ Query("getDependencies", name, <<>>, GetDependenciesOf(inst.packageDb, name))

GetMoFiles(locale) ==
    /\ inst # NoDistro
    /\ Query("getMoFiles", None, locale, GetMoFilesOf(inst.packageDb, locale))


\* ------------------------------------------------------------ initial states

\* The environments of a set of variables, each set to one of its values or
\* not set at all.
Environs(values) ==
    UNION {{env \in [D -> UNION {values[k] : k \in EnvVars}] : \A k \in D : env[k] \in values[k]} :
             D \in SUBSET EnvVars}

ReleaseLines == {<<>>, <<"Solaris">>, <<"Oracle", "Solaris", "11">>, <<"solaris", "10">>}

ModuleInit ==
    /\ imported = FALSE
    /\ distro = NoDistro
    /\ packageDb = NoDb
    /\ detectRuns = 0
    /\ lastDetect = [status |-> None, exc |-> None, arg |-> None, kind |-> None]

\* --- the data sources of the queries

Header(name, requires, provides) ==
    [name |-> name, version |-> <<"1", ".", "2">>, filenames |-> <<"/usr/bin/" \o name>>,
     requires |-> requires, provides |-> provides]

Caps == {"a", "b", "so", "virt"}

ReqLists == {<<>>} \cup {<<c>> : c \in Caps} \cup {<<c, d>> : c, d \in Caps}

\* A database holds package a, package b and possibly a second installed
\* version of a; every header provides its own name.
RpmDbs ==
    {<<Header("a", req, {"a"} \cup extra), Header("b", <<>>, {"b"} \cup bextra)>> \o second :
        req \in ReqLists, extra \in {{}, {"so"}}, bextra \in {{}, {"so"}, {"virt"}},
        second \in {<<>>, <<Header("a", <<"b">>, {"a"})>>}}

AptPackage(name, installed, ver, depends) ==
    [Name |-> name, installed |-> installed, VerStr |-> ver, DependsList |-> depends]

AptVersions == {<<"1", ".", "2", "-", "3">>, <<"1", ".", "2">>, <<"1", "-", "2", "-", "3">>}

AptDependsLists ==
    {[t \in {"Suggests"} |-> << <<"b">> >>]} \cup
    {[t \in {"Depends"} |-> list] :
        list \in {<<>>, << <<"b">> >>, << <<"a">> >>, << <<"b">>, <<"b", "a">> >>,
                  << <<"b", "a">>, <<"a">> >>}}

AptCaches ==
    {<<AptPackage("a", installed, ver, depends),
       AptPackage("b", TRUE, <<"2", "-", "1">>, [t \in {"Depends"} |-> <<>>])>> \o second :
        installed \in BOOLEAN, ver \in AptVersions, depends \in AptDependsLists,
        second \in {<<>>, <<AptPackage("a", TRUE, <<"1", ".", "2", "-", "3">>,
                                       [t \in {"Depends"} |-> << <<"b">> >>])>>}}

Line(word) == <<word, "\n">>

ToolOutputs(lists) == {[n \in QNames |-> IF n = "a" THEN l ELSE <<>>] : l \in lists}

DpkgOuts ==
    ToolOutputs({<<>>, <<Line("/usr/bin/a")>>,
                 <<Line("/usr/bin/a"), <<"\n">>, <<" ", "/usr/share/a", "\n">>>>})

JhbuildOuts ==
    ToolOutputs({<<>>, <<Line("a")>>, <<Line("b"), Line("a")>>,
                 <<Line("b"), Line("b")>>, <<Line("b"), <<"\n">>, <<" ", "b", " ", "\n">>>>})

Cpv(version) == [category |-> "sys-apps", version |-> version]

PortageDbs ==
    ToolOutputs({<<>>, <<Cpv(<<"1", ".", "2">>)>>, <<Cpv(<<"1", ".", "2">>), Cpv(<<"2">>)>>})

ConaryDbs ==
    ToolOutputs({<<>>, << <<"1", ".", "2", "-", "3", "-", "1">> >>, << <<"2">>, <<"1">> >>})

JhPaths == {<<"/", "usr">>, <<"/", "opt", "/", "lib">>, <<"/", "opt", "/", "etc">>}

JhEnvirons ==
    Environs([k \in EnvVars |-> IF k = "CERTIFIED_GNOMIE" THEN {} ELSE JhPaths])

Dir(path) == [path |-> path, dir |-> TRUE]
File(path) == [path |-> path, dir |-> FALSE]

UsrLocale == << <<"usr">>, <<"share">>, <<"locale">> >>
UsrLangpack == << <<"usr">>, <<"share">>, <<"locale-langpack">> >>
OptLocale == << <<"opt">>, <<"share">>, <<"locale">> >>

LocaleDirs ==
    {Dir(<< <<"usr">> >>), Dir(<< <<"usr">>, <<"share">> >>), Dir(UsrLocale),
     Dir(UsrLocale \o << <<"xx">> >>), Dir(UsrLocale \o << <<"xx">>, <<"LC_MESSAGES">> >>),
     Dir(UsrLocale \o << <<"xx_YY">> >>),
     Dir(UsrLangpack), Dir(UsrLangpack \o << <<"xx">> >>),
     Dir(<< <<"opt">> >>), Dir(<< <<"opt">>, <<"share">> >>), Dir(OptLocale),
     Dir(OptLocale \o << <<"xx">> >>)}

LocaleEntries ==
    {File(UsrLocale \o << <<"xx">>, <<"LC_MESSAGES">>, <<"app", ".mo">> >>),
     File(UsrLocale \o << <<"xx">>, <<"app", ".mo", ".bak">> >>),
     File(UsrLocale \o << <<"xx">>, <<"app", ".po">> >>),
     Dir(UsrLocale \o << <<"xx">>, <<"old", ".mo">> >>),
     File(UsrLocale \o << <<"xx_YY">>, <<"app", ".mo">> >>),
     File(UsrLocale \o << <<"top", ".mo">> >>),
     File(UsrLangpack \o << <<"xx">>, <<"lp", ".mo">> >>),
     File(OptLocale \o << <<"xx">>, <<"jh", ".mo">> >>)}

LocaleTrees == {LocaleDirs \cup present : present \in SUBSET LocaleEntries}

DefaultWorld ==
    [environ |-> [k \in EnvVars \ {"CERTIFIED_GNOMIE"} |->
                    IF k = "XDG_CONFIG_DIRS" THEN <<"/", "opt", "/", "etc">>
                    ELSE <<"/", "opt", "/", "lib">>],
     rpmdb |-> <<Header("a", <<"so", "b">>, {"a"}), Header("b", <<>>, {"b", "so"})>>,
     aptCache |-> <<AptPackage("a", TRUE, <<"1", ".", "2", "-", "3">>,
                               [t \in {"Depends"} |-> << <<"b">> >>]),
                    AptPackage("b", TRUE, <<"2", "-", "1">>, [t \in {"Depends"} |-> <<>>])>>,
     dpkgOut |-> [n \in QNames |-> IF n = "a" THEN <<Line("/usr/bin/a")>> ELSE <<>>],
     portageDb |-> [n \in QNames |-> IF n = "a" THEN <<Cpv(<<"1", ".", "2">>)>> ELSE <<>>],
     conaryDb |-> [n \in QNames |-> IF n = "a" THEN << <<"1", ".", "2", "-", "3">> >> ELSE <<>>],
     jhbuildOut |-> [n \in QNames |-> IF n = "a" THEN <<Line("b"), Line("a")>> ELSE <<>>],
     localeFs |-> LocaleDirs \cup
                  {File(UsrLocale \o << <<"xx">>, <<"LC_MESSAGES">>, <<"app", ".mo">> >>)}]

\* One data source varies at a time; the others are as in DefaultWorld.
QueryWorlds ==
    {[DefaultWorld EXCEPT !.rpmdb = x] : x \in RpmDbs} \cup
    {[DefaultWorld EXCEPT !.aptCache = x] : x \in AptCaches} \cup
    {[DefaultWorld EXCEPT !.dpkgOut = x] : x \in DpkgOuts} \cup
    {[DefaultWorld EXCEPT !.portageDb = x] : x \in PortageDbs} \cup
    {[DefaultWorld EXCEPT !.conaryDb = x] : x \in ConaryDbs} \cup
    {[DefaultWorld EXCEPT !.jhbuildOut = x] : x \in JhbuildOuts} \cup
    {[DefaultWorld EXCEPT !.environ = x] : x \in JhEnvirons} \cup
    {[DefaultWorld EXCEPT !.localeFs = x] : x \in LocaleTrees}

InWorld(w) ==
    /\ environ = w.environ
    /\ rpmdb = w.rpmdb
    /\ aptCache = w.aptCache
    /\ dpkgOut = w.dpkgOut
    /\ portageDb = w.portageDb
    /\ conaryDb = w.conaryDb
    /\ jhbuildOut = w.jhbuildOut
    /\ localeFs = w.localeFs

\* ================================================== dogtail/utils.py: Lock

\* The instances that share one lockdir.
NumLocks == 3
Locks == 1..NumLocks

\* Lock.__init__(location='/tmp', lockname='dogtail_lockdir_',
\* randomize=False): every instance built this way gets the same path.
LockdirPath == "/tmp/dogtail_lockdir_"

NoCall == [op |-> None, status |-> None, value |-> None, exc |-> None, arg |-> None]

LockInit ==
    /\ lockdir = "absent"
    /\ lockPc = [i \in Locks |-> "idle"]
    /\ lockOp = [i \in Locks |-> None]
    /\ lockOut = [i \in Locks |-> NoCall]
    /\ held = [i \in Locks |-> FALSE]

\* The call that instance i entered as method op ends with outcome r:
\* unlock() entered from __del__ ends the instance's life, any other call
\* leaves it usable.
LockEnd(i, op, r) ==
    /\ lockOut' = [lockOut EXCEPT ![i] =
                      [op |-> IF op = "lock" THEN "lock" ELSE "unlock",
                       status |-> r.status, value |-> r.value,
                       exc |-> r.exc, arg |-> r.arg]]
    /\ lockPc' = [lockPc EXCEPT ![i] = IF op = "__del__" THEN "dead" ELSE "idle"]

\* lock(), `if not os.path.exists(self.lockdir)`: the else branch raises.
LockExists(i) ==
    /\ lockPc[i] = "idle"
    /\ lockOp' = [lockOp EXCEPT ![i] = "lock"]
    /\ IF lockdir = "absent"
       THEN /\ lockPc' = [lockPc EXCEPT ![i] = "mkdir"]
            /\ UNCHANGED lockOut
       ELSE LockEnd(i, "lock", Raise("OSError", "Already locked"))
    /\ UNCHANGED <<lockdir, held>>

\* lock(), os.mkdir(self.lockdir): it creates the directory and lock()
\* returns the path, or it fails with EEXIST and the handler is entered.
LockMkdir(i) ==
    /\ lockPc[i] = "mkdir"
    /\ UNCHANGED lockOp
    /\ IF lockdir = "absent"
       THEN /\ lockdir' = "dir"
            /\ held' = [held EXCEPT ![i] = TRUE]
            /\ LockEnd(i, "lock", Return(LockdirPath))
       ELSE /\ lockPc' = [lockPc EXCEPT ![i] = "isdir"]
            /\ UNCHANGED <<lockdir, held, lockOut>>

\* lock(), the handler `if e.errno == errno.EEXIST and
\* os.path.isdir(self.lockdir): raise`: when the test is false nothing is
\* raised and the method runs off its end, returning None.
LockIsdir(i) ==
    /\ lockPc[i] = "isdir"
    /\ LockEnd(i, "lock", IF lockdir = "dir" THEN Raise("OSError", "Already locked")
                          ELSE Return(None))
    /\ UNCHANGED <<lockdir, lockOp, held>>

\* unlock(), `if os.path.exists(self.lockdir)`, entered as method op
\* ("unlock" when called directly, "__del__" when called from __del__).
UnlockExistsAs(i, op) ==
    /\ lockPc[i] = "idle"
    /\ lockOp' = [lockOp EXCEPT ![i] = op]
    /\ held' = [held EXCEPT ![i] = FALSE]
    /\ IF lockdir = "dir"
       THEN /\ lockPc' = [lockPc EXCEPT ![i] = "rmdir"]
            /\ UNCHANGED lockOut
       ELSE LockEnd(i, op, Raise("OSError", "not locked"))
    /\ UNCHANGED lockdir

UnlockExists(i) ==
    UnlockExistsAs(i, "unlock")

\* __del__(): self.unlock().
Del(i) ==
    UnlockExistsAs(i, "__del__")

\* unlock(), os.rmdir(self.lockdir): it removes the directory, or it fails
\* with ENOENT and the handler evaluates e.erron, an attribute OSError does
\* not have.
UnlockRmdir(i) ==
    /\ lockPc[i] = "rmdir"
    /\ UNCHANGED <<lockOp, held>>
    /\ IF lockdir = "dir"
       THEN /\ lockdir' = "absent"
            /\ LockEnd(i, lockOp[i], Return(None))
       ELSE /\ LockEnd(i, lockOp[i], Raise("AttributeError", "erron"))
            /\ UNCHANGED lockdir

\* =================================================== dogtail/utils.py: run

MaxTimeout == 3
MaxInterval == 2
Pids == {4001, 4002}

\* string.split()[0], the default of appName.
AppName == "gedit"

\* An accessible application: its name, the roleName of each child, and
\* whether reading its attributes raises AttributeError.
App(name, roles, broken) == [name |-> name, roles |-> roles, broken |-> broken]
NoNode == App(None, <<>>, FALSE)
Desktops ==
    {<<>>,
     <<App(AppName, <<>>, FALSE)>>,
     <<App(AppName, <<"dialog", "frame">>, FALSE)>>,
     <<App("other", <<"frame">>, FALSE)>>,
     <<App(AppName, <<"frame">>, FALSE), App("x", <<>>, TRUE)>>,
     <<App("x", <<>>, TRUE), App(AppName, <<"frame">>, FALSE)>>}

NoArgs == [timeout |-> 0, interval |-> 0, dumb |-> FALSE]

RunInit ==
    /\ runPc = "idle"
    /\ runArgs = NoArgs
    /\ runPid = 0
    /\ runTime = 0
    /\ slept = 0
    /\ focusNode = NoNode
    /\ runResult = 0

\* The body of `try: for child in desktop.children[::-1]: ...`, from child
\* number k downwards: the first child named appName that has a child of
\* role 'frame', NoNode when the loop ends or AttributeError ends it.
RECURSIVE PollFrom(_, _, _)
PollFrom(children, k, appName) ==
    IF k = 0 THEN NoNode
    ELSE IF children[k].broken THEN NoNode
    ELSE IF children[k].name = appName /\ "frame" \in Range(children[k].roles)
         THEN children[k]
    ELSE PollFrom(children, k - 1, appName)

Poll(children, appName) ==
    PollFrom(children, Len(children), appName)

\* doDelay(delay): sleep(delay).
doDelay(delay) ==
    slept' = slept + delay

\* os.environ['GTK_MODULES'] = 'gail:atk-bridge'
SetGtkModules(env) ==
    [k \in DOMAIN env \cup {"GTK_MODULES"} |->
        IF k = "GTK_MODULES" THEN <<"gail:atk-bridge">> ELSE env[k]]

\* run(string, timeout, interval, dumb=dumb) up to the branch on dumb:
\* the process is started with GTK_MODULES set and its pid kept.
RunCall(timeout, interval, dumb, pid) ==
    /\ runPc = "idle"
    /\ environ' = SetGtkModules(environ)
    /\ runArgs' = [timeout |-> timeout, interval |-> interval, dumb |-> dumb]
    /\ runPid' = pid
    /\ runTime' = 0
    /\ runPc' = IF dumb THEN "dumb" ELSE "test"
    /\ UNCHANGED <<desktop, slept, focusNode, runResult>>

\* `if dumb: doDelay(timeout)` and `return pid`.
RunDumb ==
    /\ runPc = "dumb"
    /\ doDelay(runArgs.timeout)
    /\ runResult' = runPid
    /\ runPc' = "returned"
    /\ UNCHANGED <<desktop, runArgs, runPid, runTime, focusNode>>

\* `while time < timeout: time = time + interval`, or `return pid` when
\* the test fails.
RunTest ==
    /\ runPc = "test"
    /\ IF runTime < runArgs.timeout
       THEN /\ runTime' = runTime + runArgs.interval
            /\ runPc' = "poll"
            /\ UNCHANGED runResult
       ELSE /\ runResult' = runPid
            /\ runPc' = "returned"
            /\ UNCHANGED runTime
    /\ UNCHANGED <<desktop, runArgs, runPid, slept, focusNode>>

\* The try block of the loop body: on a match the focused application is
\* set, otherwise (also after AttributeError) the loop body goes on.
RunPoll ==
    /\ runPc = "poll"
    /\ LET child == Poll(desktop, AppName)
       IN  IF child # NoNode
           THEN /\ focusNode' = child
                /\ runPc' = "found"
           ELSE /\ runPc' = "delay"
                /\ UNCHANGED focusNode
    /\ UNCHANGED <<desktop, runArgs, runPid, runTime, slept, runResult>>

\* doDelay(interval): the one before `return pid` on a match, or the one
\* that ends the loop body.
RunDelay ==
    /\ runPc \in {"found", "delay"}
    /\ doDelay(runArgs.interval)
    /\ IF runPc = "found"
       THEN /\ runResult' = runPid
            /\ runPc' = "returned"
       ELSE /\ runPc' = "test"
            /\ UNCHANGED runResult
    /\ UNCHANGED <<desktop, runArgs, runPid, runTime, focusNode>>

\* The launched application (or any other) registers, maps a window or
\* goes away: desktop.children is read afresh at every poll.
DesktopChange(d) ==
    /\ runPc \notin {"idle", "returned"}
    /\ d # desktop
    /\ desktop' = d
    /\ UNCHANGED <<runPc, runArgs, runPid, runTime, slept, focusNode, runResult>>

\* The steps the thread inside run() takes by itself.
RunStep ==
    \/ RunDumb
    \/ RunTest
    \/ RunPoll
    \/ RunDelay

\* ============================================ dogtail/utils.py: screenshot

MaxShots == 2

\* config.scratchDir, which config creates and which ends in a slash.
ScratchDir == <<"/tmp/dogtail/">>

\* The type names GdkPixbuf's savev accepts.
WritableFormats == {"png", "jpeg", "bmp", "ico", "tiff"}

\* The values handed in as timeStamp, by type.
Bool(b) == [type |-> "bool", value |-> b]
TimeStampArgs ==
    {Bool(TRUE), Bool(FALSE), [type |-> "NoneType", value |-> FALSE],
     [type |-> "int", value |-> TRUE]}

\* The file names handed in: runs of characters between dots.
ShotNames ==
    {<<"screenshot", ".", "png">>, <<"basename">>, <<"basename", ".", "jpg">>,
     <<"basename", ".", "PNG">>, <<"basename", ".", "dat">>,
     <<"gtk3", ".", "demo", ".", "png">>}

\* time.localtime()[0:6] at the call.
LocalTimes == {<<2026, 11, 5, 9, 7, 30>>, <<2026, 11, 5, 14, 20, 5>>}

\* str.lower() on the runs the names are made of.
Lower(atom) ==
    CASE atom = "PNG" -> "png"
      [] atom = "JPG" -> "jpg"
      [] OTHER -> atom
LowerText(text) == [i \in DOMAIN text |-> Lower(text[i])]

\* ''.join(parts)
RECURSIVE Join(_)
Join(parts) ==
    IF parts = <<>> THEN <<>> ELSE Head(parts) \o Join(Tail(parts))

\* TimeStamp.zeroPad(int, width=2)
zeroPad(n) ==
    IF n < 10 THEN <<"0", ToString(n)>> ELSE <<ToString(n)>>

\* TimeStamp.fileStamp(filename): filename.strip() + "_" + YYYYMMDD-hhmmss
fileStamp(filename, timetup) ==
    Strip(filename) \o <<"_">> \o zeroPad(timetup[1]) \o zeroPad(timetup[2])
        \o zeroPad(timetup[3]) \o <<"-">> \o zeroPad(timetup[4])
        \o zeroPad(timetup[5]) \o zeroPad(timetup[6])

\* file.split('.')[0:-1] joined, and the defaults when that is empty.
BaseName(file) ==
    LET parts == SplitOn(file, ".")
        joined == Join(SubSeq(parts, 1, Len(parts) - 1))
    IN  IF joined = <<>> THEN file ELSE joined

FileExt(file) ==
    LET parts == SplitOn(file, ".")
    IN  IF Join(SubSeq(parts, 1, Len(parts) - 1)) = <<>> THEN <<"png">>
        ELSE LowerText(parts[Len(parts)])

\* The path screenshot() builds before it captures anything.
ShotPath(file, stamped, timetup) ==
    ScratchDir \o (IF stamped THEN fileStamp(BaseName(file), timetup) ELSE BaseName(file))
               \o <<".">> \o FileExt(file)

\* pixbuf.savev(path, fileExt, [], []) after 'jpg' has become 'jpeg'.
SaveType(file) ==
    IF FileExt(file) = <<"jpg">> THEN <<"jpeg">> ELSE FileExt(file)

Savable(file) ==
    \E f \in WritableFormats : SaveType(file) = <<f>>

\* screenshot(file, timeStamp): the outcome, with whether the screen was
\* captured on the way.
screenshot(file, timeStamp, timetup) ==
    IF timeStamp.type # "bool"
    THEN [out |-> Raise("TypeError", "timeStamp"), captured |-> FALSE, saved |-> FALSE]
    ELSE IF ~Savable(file)
    THEN [out |-> Raise("ValueError", SaveType(file)), captured |-> TRUE, saved |-> FALSE]
    ELSE [out |-> Return(ShotPath(file, timeStamp.value, timetup)),
          captured |-> TRUE, saved |-> TRUE]

NoShot == [file |-> <<>>, timeStamp |-> Bool(TRUE), timetup |-> <<>>, captured |-> FALSE]

ShotInit ==
    /\ scratchFiles = {}
    /\ shots = 0
    /\ shotCall = NoShot
    /\ shotOut = Return(<<>>)

\* One screenshot() call: a saved image is a file below the scratch
\* directory, and the path is logged before it is returned.
Screenshot(file, timeStamp, timetup) ==
    /\ shots < MaxShots
    /\ shots' = shots + 1
    /\ LET r == screenshot(file, timeStamp, timetup)
       IN  /\ shotCall' = [file |-> file, timeStamp |-> timeStamp, timetup |-> timetup,
                           captured |-> r.captured]
           /\ shotOut' = r.out
           /\ scratchFiles' = IF r.saved THEN scratchFiles \cup {r.out.value}
                              ELSE scratchFiles
           /\ logged' = IF r.saved /\ LoggerLog({}) = "ok"
                        THEN Append(logged, <<"Screenshot taken: ">> \o r.out.value)
                        ELSE logged

\* The utilities of dogtail/utils.py at rest.
UtilInit ==
    /\ LockInit
    /\ desktop = <<>>
    /\ RunInit
    /\ ShotInit

\* --- detection: every combination of marker files, the release file's
\* first line, the override and the presence of the JHBuild variables.
DetectEnvirons ==
    Environs([k \in EnvVars |-> IF k = "CERTIFIED_GNOMIE" THEN {<<"yes">>, <<"no">>}
                                ELSE {<<"/", "usr">>}])

Init ==
    /\ \E w \in {[DefaultWorld EXCEPT !.environ = x] : x \in DetectEnvirons} : InWorld(w)
    /\ files \in SUBSET MarkerPaths
    /\ releaseLine \in IF "/etc/release" \in files THEN ReleaseLines ELSE {<<>>}
    /\ ModuleInit
    /\ inst = NoDistro
    /\ lastQuery = NoQuery
    /\ logged = <<>>
    /\ UtilInit

Next == ImportDistro

Spec == Init /\ [][Next]_vars

\* --- queries: a host of no particular distribution, any data source.
InitQuery ==
    /\ \E w \in QueryWorlds : InWorld(w)
    /\ files = {}
    /\ releaseLine = <<>>
    /\ ModuleInit
    /\ inst = NoDistro
    /\ lastQuery = NoQuery
    /\ logged = <<>>
    /\ UtilInit

NextQuery ==
    \/ \E kind \in Kinds : Construct(kind)
    \/ \E name \in QNames : GetVersion(name)
    \/ \E name \in QNames : GetFiles(name)
    \/ \E name \in QNames : GetDependencies(name)
    \/ \E locale \in Locales : GetMoFiles(locale)

SpecQuery == InitQuery /\ [][NextQuery]_vars


\* --- a host on which only the utilities of dogtail/utils.py are used
RestInit ==
    /\ InWorld(DefaultWorld)
    /\ files = {}
    /\ releaseLine = <<>>
    /\ ModuleInit
    /\ inst = NoDistro
    /\ lastQuery = NoQuery
    /\ logged = <<>>

distroVars == <<hostVars, moduleVars, sourceVars, inst, lastQuery, logged>>

\* --- Lock: several instances on one lockdir, every interleaving of the
\* steps of their lock(), unlock() and __del__() calls.
InitLock ==
    /\ RestInit
    /\ UtilInit

NextLock ==
    \/ \E i \in Locks : LockExists(i) /\ UNCHANGED <<distroVars, runVars, shotVars>>
    \/ \E i \in Locks : LockMkdir(i) /\ UNCHANGED <<distroVars, runVars, shotVars>>
    \/ \E i \in Locks : LockIsdir(i) /\ UNCHANGED <<distroVars, runVars, shotVars>>
    \/ \E i \in Locks : UnlockExists(i) /\ UNCHANGED <<distroVars, runVars, shotVars>>
    \/ \E i \in Locks : UnlockRmdir(i) /\ UNCHANGED <<distroVars, runVars, shotVars>>
    \/ \E i \in Locks : Del(i) /\ UNCHANGED <<distroVars, runVars, shotVars>>

SpecLock == InitLock /\ [][NextLock]_vars

\* --- run(): one call with any timeout, interval and dumb, on a desktop
\* that changes while run() waits.  The thread inside run() keeps running.
InitRun ==
    /\ RestInit
    /\ LockInit
    /\ desktop \in Desktops
    /\ RunInit
    /\ ShotInit

NextRun ==
    \/ \E t \in 0..MaxTimeout, iv \in 0..MaxInterval, d \in BOOLEAN, pid \in Pids :
          RunCall(t, iv, d, pid) /\ UNCHANGED <<files, releaseLine, moduleVars, sourceVars,
                                               inst, lastQuery, logged, lockVars, shotVars>>
    \/ RunDumb /\ UNCHANGED <<distroVars, lockVars, shotVars>>
    \/ RunTest /\ UNCHANGED <<distroVars, lockVars, shotVars>>
    \/ RunPoll /\ UNCHANGED <<distroVars, lockVars, shotVars>>
    \/ RunDelay /\ UNCHANGED <<distroVars, lockVars, shotVars>>
    \/ \E d \in Desktops : DesktopChange(d) /\ UNCHANGED <<distroVars, lockVars, shotVars>>

\* --- screenshot(): a few calls with any name, timeStamp value and clock.
InitShot ==
    /\ RestInit
    /\ UtilInit

NextShot ==
    \E file \in ShotNames, timeStamp \in TimeStampArgs, timetup \in LocalTimes :
        /\ Screenshot(file, timeStamp, timetup)
        /\ UNCHANGED <<hostVars, moduleVars, sourceVars, inst, lastQuery, lockVars, runVars>>

SpecShot == InitShot /\ [][NextShot]_vars

SpecRun == InitRun /\ [][NextRun]_vars /\ WF_vars(RunStep /\ UNCHANGED <<distroVars, lockVars, shotVars>>)


\* ==================================================================== claims

\* --- the detection rules as the specification lists them (section 4.1)

OverrideSet == EnvironGet(environ, "CERTIFIED_GNOMIE", <<"no">>) = <<"yes">>

Returned(kind) == [status |-> "return", exc |-> None, arg |-> None, kind |-> kind]
Unsupported(label) ==
    [status |-> "raise", exc |-> "DistributionNotSupportedError", arg |-> label, kind |-> None]

RuleOrder ==
    <<[marker |-> "/etc/SuSE-release", outcome |-> Returned("Suse")],
      [marker |-> "/etc/fedora-release", outcome |-> Returned("Fedora")],
      [marker |-> "/etc/redhat-release", outcome |-> Returned("RHEL")],
      [marker |-> "/usr/share/doc/ubuntu-minimal", outcome |-> Returned("Ubuntu")],
      [marker |-> "/etc/debian_version", outcome |-> Returned("Debian")],
      [marker |-> "/etc/gentoo-release", outcome |-> Returned("Gentoo")],
      [marker |-> "/etc/slackware-version", outcome |-> Unsupported("Slackware")],
      [marker |-> "/var/lib/conarydb/conarydb", outcome |-> Returned("Conary")],
      [marker |-> "/etc/release", outcome |-> Returned("Solaris")]>>

RuleMatches(i) ==
    /\ RuleOrder[i].marker \in files
    /\ RuleOrder[i].marker = "/etc/release" => MatchSolaris(releaseLine)

EarliestMatch(i) == RuleMatches(i) /\ \A j \in 1..(i - 1) : ~RuleMatches(j)

Detected == detectRuns > 0

\* C1: with the override not set to "yes", a detection run ends with the
\* outcome of the earliest rule, in the order Suse, Fedora, RHEL, Ubuntu,
\* Debian, Gentoo, Slackware, Conary, Solaris, whose marker is present.
C1_EarliestRuleWins ==
    (Detected /\ ~OverrideSet) =>
        \A i \in 1..Len(RuleOrder) : EarliestMatch(i) => lastDetect = RuleOrder[i].outcome

\* The if/elif chain taken alone ends as the rule order says; a detection
\* run differs from it only by the logger.log call made first.
ChainOutcome ==
    LET r == DetectChain(environ, files, releaseLine)
    IN  [status |-> r.status, exc |-> r.exc, arg |-> r.arg,
         kind |-> IF r.status = "return" THEN r.value.kind ELSE None]

ChainFollowsRuleOrder ==
    ~OverrideSet =>
        /\ \A i \in 1..Len(RuleOrder) : EarliestMatch(i) => ChainOutcome = RuleOrder[i].outcome
        /\ (\A i \in 1..Len(RuleOrder) : ~RuleMatches(i)) => ChainOutcome = Unsupported("Unknown")

\* C2: with CERTIFIED_GNOMIE set to "yes", a detection run returns a JHBuild
\* distro and binds it, whatever marker files exist and whether or not
\* LD_LIBRARY_PATH, XDG_CONFIG_DIRS and PKG_CONFIG_PATH are set.
C2_OverrideYieldsJHBuild ==
    (Detected /\ OverrideSet) => (lastDetect = Returned("JHBuild") /\ distro.kind = "JHBuild")

\* C3: with the override not set and no rule matching, a detection run
\* raises DistributionNotSupportedError("Unknown") and binds neither distro
\* nor packageDb.
C3_NoMatchRaisesUnknown ==
    (Detected /\ ~OverrideSet /\ \A i \in 1..Len(RuleOrder) : ~RuleMatches(i)) =>
        (lastDetect = Unsupported("Unknown") /\ distro = NoDistro /\ packageDb = NoDb)

\* C4: with the Slackware marker present, the override not set and none of
\* the Suse, Fedora, RHEL, Ubuntu, Debian and Gentoo markers present, a
\* detection run raises DistributionNotSupportedError("Slackware"), also
\* when the Conary marker or a Solaris release file is present.
C4_SlackwareUnsupported ==
    (Detected /\ ~OverrideSet /\ EarliestMatch(7)) =>
        (lastDetect = Unsupported("Slackware") /\ distro = NoDistro)

\* C9: with /etc/release present, its first line matching the Solaris
\* signature, no earlier rule matching and the override not set, a detection
\* run returns Solaris, and getVersion on the bound backend raises
\* NotImplementedError for every package name.
C9_SolarisNotImplemented ==
    (Detected /\ ~OverrideSet /\ EarliestMatch(9)) =>
        /\ lastDetect = Returned("Solaris")
        /\ distro.kind = "Solaris"
        /\ \A name \in QNames :
              GetVersionOf(packageDb, name).out = Raise("NotImplementedError", None)

\* C10: detection runs once per process: whatever the process does with the
\* module, detectDistro is never entered a second time.
C10_DetectionRunsOnce == detectRuns <= 1

\* --- the backend each kind is bound to, as the specification lists them

BackendOf(kind) ==
    CASE kind \in {"Fedora", "RHEL", "Suse"} -> "_RpmPackageDb"
      [] kind = "Debian"  -> "_AptPackageDb"
      [] kind = "Ubuntu"  -> "_UbuntuAptPackageDb"
      [] kind = "Gentoo"  -> "_PortagePackageDb"
      [] kind = "Conary"  -> "_ConaryPackageDb"
      [] kind = "Solaris" -> "_SolarisPackageDb"
      [] kind = "JHBuild" -> "JhBuildPackageDb"

\* C5: every Distro object, the module-level one and one made by calling
\* its class, holds the backend of its kind (Fedora, RHEL, Suse: Rpm;
\* Debian: Apt; Ubuntu: Ubuntu-Apt; Gentoo: Portage; Conary: Conary;
\* Solaris: Solaris; JHBuild: JhBuild), the module-level packageDb is that
\* of the module-level distro, and no step after the construction changes a
\* Distro's kind or the class of its backend.
C5_BackendByKind ==
    /\ [](\A d \in {distro, inst} : d # NoDistro => d.packageDb.cls = BackendOf(d.kind))
    /\ [](distro # NoDistro => packageDb = distro.packageDb)
    /\ [][inst # NoDistro =>
            (inst'.kind = inst.kind /\ inst'.packageDb.cls = inst.packageDb.cls)]_vars
    /\ [][distro # NoDistro => (distro' = distro /\ packageDb'.cls = packageDb.cls)]_vars

\* An Ubuntu object holds the Ubuntu-Apt backend after a version query has
\* opened that backend's cache.
C5_Witness ==
    /\ inst.kind = "Ubuntu"
    /\ inst.packageDb.cls = "_UbuntuAptPackageDb"
    /\ inst.packageDb.cache # None
    /\ lastQuery.op = "getVersion"

\* C6: a getDependencies call that returns, on any backend, returns a list
\* that holds neither the queried name nor any name twice.
C6_NoSelfNoDuplicates ==
    (lastQuery.op = "getDependencies" /\ lastQuery.out.status = "return") =>
        (lastQuery.name \notin Range(lastQuery.out.value) /\ NoDuplicates(lastQuery.out.value))

\* The name no data source holds.
AbsentName == "zz"

\* C7: getVersion, getFiles and getDependencies, on any backend, raise
\* PackageNotFoundError(name) for a name that the backend's data source does
\* not hold.
C7_AbsentRaisesNotFound ==
    (lastQuery.op \in {"getVersion", "getFiles", "getDependencies"}
        /\ lastQuery.name = AbsentName) =>
        lastQuery.out = Raise("PackageNotFoundError", AbsentName)

\* --- what getMoFiles is to return

IsPrefix(s, t) == Len(s) <= Len(t) /\ SubSeq(t, 1, Len(s)) = s

\* The path text names a file of the tree whose name ends in .mo.
IsCatalog(text) ==
    /\ text # <<>>
    /\ text[Len(text)] = ".mo"
    /\ \E e \in localeFs : e.path = Components(text) /\ ~e.dir

\* The entry lies below the directory (at any depth).
Below(e, path) == Len(e.path) > Len(path) /\ SubSeq(e.path, 1, Len(path)) = path

\* The catalog files of the tree below the directory.
CatalogsBelow(path) ==
    {e \in localeFs : /\ Below(e, path)
                      /\ ~e.dir
                      /\ e.path[Len(e.path)][Len(e.path[Len(e.path)])] = ".mo"}

MoRoots == Range(inst.packageDb.localePrefixes)

\* Every returned path is below the locale's directory of some root.
C8_Scoped ==
    (lastQuery.op = "getMoFiles" /\ lastQuery.locale # <<>>) =>
        \A i \in 1..Len(lastQuery.out.value) :
            \E root \in MoRoots :
                IsPrefix(root \o <<"/">> \o lastQuery.locale \o <<"/">>, lastQuery.out.value[i])

\* Every returned path names a catalog file.
C8_OnlyCatalogs ==
    lastQuery.op = "getMoFiles" =>
        \A i \in 1..Len(lastQuery.out.value) : IsCatalog(lastQuery.out.value[i])

\* Without a locale, every catalog file below a root is returned.
C8_AllCatalogs ==
    (lastQuery.op = "getMoFiles" /\ lastQuery.locale = <<>>) =>
        \A root \in MoRoots : \A e \in CatalogsBelow(Components(root)) :
            \E i \in 1..Len(lastQuery.out.value) : Components(lastQuery.out.value[i]) = e.path

\* C8: getMoFiles(locale) returns only catalog (.mo) files below the
\* locale's subdirectory of a configured root; getMoFiles() returns the
\* catalog files below every configured root; no path is returned twice.
C8_LocaleScoping ==
    /\ C8_Scoped
    /\ C8_OnlyCatalogs
    /\ C8_AllCatalogs
    /\ lastQuery.op = "getMoFiles" => NoDuplicates(lastQuery.out.value)

\* --- C11 (distro.py:333 and 358 against logging.py:167)
\* A detection run has called the logger once it has been entered.
LogCalled == detectRuns > 0

\* C11: every detection run gets its announcement accepted by the logger
\* before any probe, a run that returns has logged the detected class name
\* as its last message, and no run ends in an error raised by a logging call.
C11_LoggerAcceptsDetectionCalls ==
    LogCalled =>
        /\ Len(logged) >= 1
        /\ logged[1] = "Detecting distribution:"
        /\ lastDetect.exc # "TypeError"
        /\ lastDetect.status = "return" => logged[Len(logged)] = lastDetect.kind

\* --- C12, C13 (utils.py:185-240)
Holders == {i \in Locks : held[i]}

\* C12: at most one instance holds the lock at a time, and while an instance
\* holds it the lockdir stays in place whatever the other instances call.
C12_MutualExclusion ==
    /\ Cardinality(Holders) <= 1
    /\ Holders # {} => lockdir = "dir"

\* C13: lock() ends by returning the lockdir it created or by raising
\* OSError, unlock() ends by returning after removing the lockdir or by
\* raising OSError; no call returns without its effect or raises another error.
C13_LockUnlockOutcomes ==
    \A i \in Locks :
        \/ lockOut[i].status = None
        \/ lockOut[i].status = "raise" /\ lockOut[i].exc = "OSError"
        \/ /\ lockOut[i].status = "return"
           /\ lockOut[i].value = IF lockOut[i].op = "lock" THEN LockdirPath ELSE None

\* --- C14 (utils.py:87-136)
Running == runPc \notin {"idle", "returned"}

\* Every run() call with a positive polling interval returns.
RunTerminatesWhenIntervalPositive ==
    (Running /\ (runArgs.dumb \/ runArgs.interval > 0)) ~> (runPc = "returned")

\* C14: every run() call returns, and what it returns is the pid of the
\* process it launched.
C14_RunTerminates ==
    /\ [](runPc = "returned" => runResult = runPid)
    /\ Running ~> (runPc = "returned")

\* --- C15 (utils.py:33-84, tests/utils.py:31-51)
\* The given name up to its last dot, and what follows that dot.
LastDot(file) ==
    IF \E i \in 1..Len(file) : file[i] = "."
    THEN CHOOSE i \in 1..Len(file) : file[i] = "." /\ \A j \in (i + 1)..Len(file) : file[j] # "."
    ELSE 0
GivenBase(file) ==
    IF LastDot(file) = 0 THEN file ELSE SubSeq(file, 1, LastDot(file) - 1)
GivenExt(file) ==
    IF LastDot(file) = 0 THEN <<"png">>
    ELSE LowerText(SubSeq(file, LastDot(file) + 1, Len(file)))
Writable(ext) ==
    \E f \in WritableFormats \cup {"jpg"} : ext = <<f>>
StampOf(path) ==
    SubSeq(path, Len(ScratchDir) + Len(GivenBase(shotCall.file)) + 1,
           Len(path) - Len(GivenExt(shotCall.file)) - 1)

ShotNamedAsGiven ==
    LET path == shotOut.value
        base == GivenBase(shotCall.file)
        ext == GivenExt(shotCall.file)
    IN  /\ shotOut.status = "return"
        /\ path \in scratchFiles
        /\ Len(path) >= Len(ScratchDir) + Len(base) + Len(ext) + 1
        /\ SubSeq(path, 1, Len(ScratchDir) + Len(base)) = ScratchDir \o base
        /\ SubSeq(path, Len(path) - Len(ext), Len(path)) = <<".">> \o ext
        /\ IF shotCall.timeStamp.value
           THEN Len(StampOf(path)) > 1 /\ Head(StampOf(path)) = "_"
           ELSE StampOf(path) = <<>>

\* C15: a screenshot() call whose timeStamp is not a boolean raises
\* TypeError before anything is captured; otherwise one whose extension the
\* saver cannot write raises ValueError; otherwise it returns an existing
\* path, the scratch directory followed by <base>.<ext> or, when stamped,
\* <base>_<stamp>.<ext>, the extension being png when the name has none.
C15_ScreenshotOutcomes ==
    shots > 0 =>
        IF shotCall.timeStamp.type # "bool"
        THEN shotOut.status = "raise" /\ shotOut.exc = "TypeError" /\ ~shotCall.captured
        ELSE IF ~Writable(GivenExt(shotCall.file))
        THEN shotOut.status = "raise" /\ shotOut.exc = "ValueError"
        ELSE ShotNamedAsGiven

\* The same for the names that hold at most one dot.
ShotOutcomesForPlainNames ==
    Len(SplitOn(shotCall.file, ".")) <= 2 => C15_ScreenshotOutcomes

\* --- C16 (distro.py:136-187)
AptInst == inst.packageDb.cls \in AptClasses
CacheUsers == {"getVersion", "getDependencies"}

\* What one step does to the cache handle of an Apt backend.
AptCacheStep ==
    /\ (inst = NoDistro /\ inst'.packageDb.cls \in AptClasses)
           => inst'.packageDb.cache = None
    /\ AptInst =>
           /\ inst.packageDb.cache # None
                  => inst'.packageDb.cache = inst.packageDb.cache
           /\ (inst.packageDb.cache = None /\ lastQuery'.op \in CacheUsers)
                  => inst'.packageDb.cache # None
           /\ lastQuery'.op \notin CacheUsers
                  => inst'.packageDb.cache = inst.packageDb.cache
           /\ lastQuery'.op = "getFiles"
                  => lastQuery'.out =
                         AptGetFiles([inst.packageDb EXCEPT !.cache = None],
                                     lastQuery'.name).out

\* C16: an Apt backend is built without a cache handle; its first
\* getVersion or getDependencies call creates the handle, whether it
\* succeeds or fails; no later call replaces or resets it; getFiles leaves
\* it as it is and answers without it.
C16_AptCacheCreatedOnceAndKept == [][AptCacheStep]_vars

\* A failing query on an Apt backend that has its handle.
C16_Witness ==
    /\ AptInst
    /\ inst.packageDb.cache = "GetCache()"
    /\ lastQuery.op \in CacheUsers
    /\ lastQuery.out.exc = "PackageNotFoundError"

\* --- C17 (distro.py:112-133)
RpmInst == inst.packageDb.cls = "_RpmPackageDb"

\* The first header of the database that carries the name.
FirstHeader(name) ==
    rpmdb[CHOOSE i \in 1..Len(rpmdb) :
              rpmdb[i].name = name /\ \A j \in 1..(i - 1) : rpmdb[j].name # name]

\* The names of the installed packages that provide a requirement of the
\* first header of name, name itself left out.
ProviderNames(name) ==
    {rpmdb[i].name : i \in {k \in 1..Len(rpmdb) :
        \E r \in Range(FirstHeader(name).requires) : r \in rpmdb[k].provides}} \ {name}

Installed(name) == \E i \in 1..Len(rpmdb) : rpmdb[i].name = name

\* C17: for an installed package the Rpm backend's getDependencies returns,
\* each once, the names of the packages providing a requirement of the
\* package's first header, without the queried name.
C17_RpmDependenciesAreProviders ==
    (RpmInst /\ lastQuery.op = "getDependencies" /\ Installed(lastQuery.name)) =>
        /\ lastQuery.out.status = "return"
        /\ NoDuplicates(lastQuery.out.value)
        /\ Range(lastQuery.out.value) = ProviderNames(lastQuery.name)

\* A requirement provided by the package itself and by another one, in a
\* database holding two headers of the queried name.
C17_Witness ==
    /\ RpmInst
    /\ lastQuery.op = "getDependencies"
    /\ lastQuery.name = "a"
    /\ Len(DbMatchName("a")) = 2
    /\ Len(DbMatchProvides("so")) = 2
    /\ "so" \in Range(FirstHeader("a").requires)
    /\ lastQuery.out.value = <<"b">>

\* --- C18 (distro.py:93-187)
QueryOps == {"getVersion", "getFiles", "getDependencies"}
Signals == {"PackageNotFoundError", "NotImplementedError"}

\* The step is a package query that ends in one of the two signals.
FailingQueryStep ==
    /\ lastQuery'.op \in QueryOps
    /\ lastQuery'.out.status = "raise"
    /\ lastQuery'.out.exc \in Signals

\* Every query answers on db1 what it answers on db2.
SameAnswers(db1, db2) ==
    /\ \A n \in QNames :
           /\ GetVersionOf(db1, n).out = GetVersionOf(db2, n).out
           /\ GetFilesOf(db1, n).out = GetFilesOf(db2, n).out
           /\ GetDependenciesOf(db1, n).out = GetDependenciesOf(db2, n).out
    /\ \A l \in Locales : GetMoFilesOf(db1, l).out = GetMoFilesOf(db2, l).out

====
